---- MODULE Spec2Model ----
(***************************************************************************)
(* Viewport lifecycle of imgui-wgpu-winit (src/src/lib.rs): the Platform   *)
(* Backend callbacks that the GUI core invokes, the shared event queue,    *)
(* the reconciler Renderer::update_viewports, the input router             *)
(* Renderer::handle_event and the secondary-window map.                    *)
(*                                                                         *)
(* The GUI core (Dear ImGui), the window system (winit) and the graphics   *)
(* API (wgpu) are the environment.  What the model keeps of them is what   *)
(* the code reads or writes: per viewport its id, pos, size and            *)
(* platform_user_data; per native window its position, inner size and      *)
(* visibility; per surface its configured size.  A window's title and      *)
(* input focus are written by the library and never read back, so they     *)
(* are not kept.                                                           *)
(***************************************************************************)
EXTENDS Integers, Sequences, FiniteSets, TLC

(* ------------------------------ bounds -------------------------------- *)

\* Longest event queue the GUI core builds up between two drains.
MaxQueue == 2

\* Heap cells beyond one per viewport: how many leaked ViewportData records
\* the heap can hold before Box::new is no longer modelled.
MaxLeaked == 1

\* Resized events of the main window that may wait to be delivered.
MaxPending == 2

\* Key events the GUI core may hold between two frames.
MaxKeyEvents == 2

(* ----------------------------- constants ------------------------------ *)

\* Id of the main viewport (imgui.main_viewport_mut()).
MainVp == 0

\* Window id of the main window (main_window.id()).
MainWindow == 0

\* null_mut(): the value of platform_user_data with no metadata attached.
NullPtr == 0

\* Ids of the secondary viewports the GUI core may hand out.
VpIds == {1, 2}

AllVps == {MainVp} \cup VpIds

\* Abstract positions ([f32; 2]) and sizes (width, height).
Poss == {0, 1}

Sizes == {<<1, 1>>, <<2, 1>>}

Titles == {"t"}

\* Native window ids and surface handles: one more than the map can hold, so
\* that a window built while the entry it replaces is still alive gets an
\* id of its own.
WinIds == 1..(Cardinality(VpIds) + 1)

\* Heap addresses of ViewportData records.
Addrs == 1..(Cardinality(AllVps) + MaxLeaked)

VARIABLES
    vp_exists,        \* GUI core: the ids in the core's viewport set
    vp_created,       \* GUI core: PlatformWindowCreated of each viewport
    vp,               \* GUI core: pos, size, platform_user_data per viewport
    platform_request, \* GUI core: <<id, "resize"|"move"|"close">> flags set
    display_size,     \* imgui.io().display_size
    heap,             \* live ViewportData records, by address
    event_queue,      \* Renderer::event_queue / PlatformBackend::event_queue
    extra_windows,    \* Renderer::extra_windows: id -> (renderer, surface, window)
    windows,          \* live native windows, by window id
    surfaces,         \* live surfaces, by handle
    renderers,        \* number of live secondary SRenderer instances
    in_update,        \* control is inside update_viewports' loop
    status,           \* "running" | "panicked" | "aborted"
    \* history (none of it is read by an operation)
    enq_log,          \* events enqueued since the last completed drain
    applied_log,      \* events dispatched by the drain in progress
    seed,             \* per viewport: the {pos,size} create_window seeded,
                      \* until an OS event rewrites the metadata
    vis_applied,      \* ids whose current entry has had SetVisible applied
    construct_failed, \* a window or surface construction has failed
    dropped,          \* entries released by the drain in progress, in order
    frames,           \* what the last recorded render_viewports call did with
                      \* each entry that had a viewport
    main_result,      \* the last recorded render call: what the main renderer
                      \* reported and what render returned
    main_window,      \* inner size of the main window, as the window system
                      \* has it
    main_surface,     \* size the application's main surface is configured to
    os_events,        \* Resized events of the main window not yet delivered
    io_keys,          \* key events added to imgui.io() since the last frame
    last_cursor,      \* Renderer::last_cursor
    main_cursor,      \* cursor icon the main window shows
    window_cursor,    \* cursor icon of each secondary window, by window id
                      \* (of no meaning for an id not in use)
    violated         \* a callback has run into undefined behaviour because
                      \* the GUI core broke the callback contract

vars == <<vp_exists, vp_created, vp, platform_request, display_size, heap,
          event_queue, extra_windows, windows, surfaces, renderers, in_update,
          status, enq_log, applied_log, seed, vis_applied,
          construct_failed, dropped, frames, main_result, main_window,
          main_surface, os_events, io_keys, last_cursor, main_cursor,
          window_cursor, violated>>

core_vars == <<vp_exists, vp_created, vp, platform_request, display_size>>

native_vars == <<extra_windows, windows, surfaces, renderers>>

ghost_drain == <<applied_log, vis_applied, construct_failed, dropped>>

main_vars == <<main_window, main_surface, os_events>>

cursor_vars == <<last_cursor, main_cursor, window_cursor>>

\* What only the drawing, the cursor and the main-window input steps change.
outer_vars == <<frames, main_result, main_window, main_surface, os_events,
                io_keys, last_cursor, main_cursor, window_cursor>>

(* ------------------------------ helpers ------------------------------- *)

Min(S) == CHOOSE x \in S : \A y \in S : x <= y

\* A function without the keys in K.
Without(f, K) == [x \in DOMAIN f \ K |-> f[x]]

\* struct ViewportData
ViewportData(pos, size, focus, minimized) ==
    [pos |-> pos, size |-> size, focus |-> focus, minimized |-> minimized]

\* enum ViewportEvent.  Every event carries the three payload fields, and
\* the ones its variant lacks hold a filler.
Event(tag, id, pos, size, title) ==
    [tag |-> tag, id |-> id, pos |-> pos, size |-> size, title |-> title]

Create(id) == Event("Create", id, 0, <<0, 0>>, "")

Destroy(id) == Event("Destroy", id, 0, <<0, 0>>, "")

SetPos(id, pos) == Event("SetPos", id, pos, <<0, 0>>, "")

SetSize(id, size) == Event("SetSize", id, 0, size, "")

SetVisible(id) == Event("SetVisible", id, 0, <<0, 0>>, "")

SetFocus(id) == Event("SetFocus", id, 0, <<0, 0>>, "")

SetTitle(id, title) == Event("SetTitle", id, 0, <<0, 0>>, title)

\* Box::into_raw(Box::new(..)): a fresh address.
FreeAddrs == Addrs \ DOMAIN heap

(* ------------------------------- Init --------------------------------- *)

\* Renderer::new: the main viewport carries metadata seeded from the main
\* window with focus = true; the queue and the map are empty.
Init ==
    LET p == Min(Poss)
        s == <<1, 1>>
    IN  /\ vp_exists = [v \in AllVps |-> v = MainVp]
        /\ vp_created = [v \in AllVps |-> v = MainVp]
        /\ vp = [v \in AllVps |->
                    IF v = MainVp
                    THEN [pos |-> p, size |-> s, platform_user_data |-> Min(Addrs)]
                    ELSE [pos |-> Min(Poss), size |-> <<1, 1>>,
                          platform_user_data |-> NullPtr]]
        /\ platform_request = {}
        /\ display_size = s
        /\ heap = (Min(Addrs) :> ViewportData(p, s, TRUE, FALSE))
        /\ event_queue = <<>>
        /\ extra_windows = <<>>
        /\ windows = <<>>
        /\ surfaces = <<>>
        /\ renderers = 0
        /\ in_update = FALSE
        /\ status = "running"
        /\ enq_log = <<>>
        /\ applied_log = <<>>
        /\ seed = [v \in VpIds |-> {}]
        /\ vis_applied = {}
        /\ construct_failed = FALSE
        /\ dropped = <<>>
        /\ frames = <<>>
        /\ main_result = <<>>
        /\ main_window = s
        /\ main_surface = s
        /\ os_events = <<>>
        /\ io_keys = <<>>
        /\ last_cursor = "Default"
        /\ main_cursor = "Default"
        /\ window_cursor = [w \in WinIds |-> "Default"]
        /\ violated = FALSE

\* An operation of the library starts only while the process is alive and
\* no drain is in progress (one thread, and no callback runs inside
\* update_viewports).  The platform_request_* flags are the core's to read
\* and clear, the library only ever sets them: the core is taken to consume
\* them (CoreClearRequests) before the next operation starts.
Idle == status = "running" /\ ~in_update /\ platform_request = {}

(* ------------------------- Platform Backend --------------------------- *)

\* VecDeque::push_back on the shared queue.
PushBack(q, ev) == Append(q, ev)

Enqueue(ev) ==
    /\ event_queue' = PushBack(event_queue, ev)
    /\ enq_log' = Append(enq_log, ev)

\* Box::into_raw(Box::new(data)): the heap with data at a fresh address.
BoxNew(h, data) == h @@ (Min(Addrs \ DOMAIN h) :> data)

\* drop(Box::from_raw(p)) for a live p.
BoxDrop(h, p) == Without(h, {p})

\* Variant: the record is seeded with fixed defaults, not from the viewport.
SeedDataDefault(v) == ViewportData(Min(Poss), <<1, 1>>, FALSE, FALSE)

\* The ViewportData create_window seeds from the viewport.
SeedData(v) == ViewportData(vp[v].pos, vp[v].size, FALSE, FALSE)

\* What every backend callback leaves alone.
BackendFrame ==
    /\ UNCHANGED <<vp_exists, platform_request, display_size>>
    /\ UNCHANGED native_vars
    /\ UNCHANGED <<in_update, status>>
    /\ UNCHANGED ghost_drain
    /\ UNCHANGED outer_vars

\* PlatformBackend::create_window
create_window(v) ==
    /\ heap' = BoxNew(heap, SeedData(v))
    /\ vp' = [vp EXCEPT ![v].platform_user_data = Min(Addrs \ DOMAIN heap)]
    /\ Enqueue(Create(v))
    /\ seed' = [seed EXCEPT ![v] = {[pos |-> vp[v].pos, size |-> vp[v].size]}]
    /\ BackendFrame

\* PlatformBackend::destroy_window on a viewport with metadata attached
destroy_window(v) ==
    /\ heap' = BoxDrop(heap, vp[v].platform_user_data)
    /\ vp' = [vp EXCEPT ![v].platform_user_data = NullPtr]
    /\ Enqueue(Destroy(v))
    /\ seed' = [seed EXCEPT ![v] = {}]
    /\ BackendFrame

\* Variant: the request is also written into the viewport's metadata.
RequestWritesMetadata(ev) ==
    /\ Enqueue(ev)
    /\ heap' = IF vp[ev.id].platform_user_data \in DOMAIN heap
               THEN [heap EXCEPT ![vp[ev.id].platform_user_data].pos = ev.pos]
               ELSE heap
    /\ UNCHANGED <<vp, seed>>
    /\ BackendFrame

\* show_window, set_window_pos, set_window_size, set_window_focus and
\* set_window_title: push one event.
Request(ev) ==
    /\ Enqueue(ev)
    /\ UNCHANGED <<vp, heap, seed>>
    /\ BackendFrame

show_window(v) == Request(SetVisible(v))

set_window_pos(v, pos) == Request(SetPos(v, pos))

set_window_size(v, size) == Request(SetSize(v, size))

set_window_focus(v) == Request(SetFocus(v))

set_window_title(v, title) == Request(SetTitle(v, title))

\* The read behind get_window_pos/size/focus/minimized, for a viewport with
\* metadata attached.
Metadata(v) == heap[vp[v].platform_user_data]

\* The getters are pure reads of the attached record.
get_window_pos(v) == Metadata(v).pos

\* Variant: the size is read from the viewport, not from its metadata.
get_window_sizeOfViewport(v) == vp[v].size

get_window_size(v) == Metadata(v).size

get_window_focus(v) == Metadata(v).focus

get_window_minimized(v) == Metadata(v).minimized

(* ------------------- the GUI core, keeping its contract ---------------- *)

\* The core calls create_window on a viewport of its set that has no
\* platform window, destroy_window once per create_window, and the getters
\* (which change nothing) only between the two.  The main viewport's window belongs to the
\* application: the core never creates or destroys it.

QueueHasRoom == Len(event_queue) < MaxQueue

CoreAddViewport(v, p, s) ==
    /\ Idle
    /\ ~vp_exists[v]
    /\ vp_exists' = [vp_exists EXCEPT ![v] = TRUE]
    /\ vp' = [vp EXCEPT ![v] = [pos |-> p, size |-> s,
                                platform_user_data |-> NullPtr]]
    /\ UNCHANGED <<vp_created, platform_request, display_size, heap,
                   event_queue, enq_log, seed, in_update, status, violated>>
    /\ UNCHANGED native_vars
    /\ UNCHANGED ghost_drain
    /\ UNCHANGED outer_vars

\* The core moves or resizes a viewport in its layout pass.
CoreLayoutViewport(v, p, s) ==
    /\ Idle
    /\ vp_exists[v]
    /\ <<p, s>> # <<vp[v].pos, vp[v].size>>
    /\ vp' = [vp EXCEPT ![v].pos = p, ![v].size = s]
    /\ UNCHANGED <<vp_exists, vp_created, platform_request, display_size, heap,
                   event_queue, enq_log, seed, in_update, status, violated>>
    /\ UNCHANGED native_vars
    /\ UNCHANGED ghost_drain
    /\ UNCHANGED outer_vars

\* A viewport leaves the core's set after its platform window was destroyed.
CoreRemoveViewport(v) ==
    /\ Idle
    /\ vp_exists[v]
    /\ ~vp_created[v]
    /\ vp_exists' = [vp_exists EXCEPT ![v] = FALSE]
    /\ vp' = [vp EXCEPT ![v] = [pos |-> Min(Poss), size |-> <<1, 1>>,
                                platform_user_data |-> NullPtr]]
    /\ platform_request' = {r \in platform_request : r[1] # v}
    /\ UNCHANGED <<vp_created, display_size, heap, event_queue, enq_log, seed,
                   in_update, status, violated>>
    /\ UNCHANGED native_vars
    /\ UNCHANGED ghost_drain
    /\ UNCHANGED outer_vars

\* The core reads and clears the platform_request_* flags at a new frame.
CoreClearRequests ==
    /\ status = "running"
    /\ ~in_update
    /\ platform_request # {}
    /\ platform_request' = {}
    /\ UNCHANGED <<vp_exists, vp_created, vp, display_size, heap, event_queue,
                   enq_log, seed, in_update, status, violated>>
    /\ UNCHANGED native_vars
    /\ UNCHANGED ghost_drain
    /\ UNCHANGED outer_vars

CoreCreateWindow(v) ==
    /\ Idle
    /\ vp_exists[v]
    /\ ~vp_created[v]
    /\ QueueHasRoom
    /\ FreeAddrs # {}
    /\ create_window(v)
    /\ vp_created' = [vp_created EXCEPT ![v] = TRUE]
    /\ UNCHANGED violated

CoreDestroyWindow(v) ==
    /\ Idle
    /\ vp_created[v]
    /\ QueueHasRoom
    /\ destroy_window(v)
    /\ vp_created' = [vp_created EXCEPT ![v] = FALSE]
    /\ UNCHANGED violated

CoreShowWindow(v) ==
    /\ Idle /\ vp_exists[v] /\ QueueHasRoom
    /\ show_window(v)
    /\ UNCHANGED <<vp_created, violated>>

CoreSetWindowPos(v, pos) ==
    /\ Idle /\ vp_exists[v] /\ QueueHasRoom
    /\ set_window_pos(v, pos)
    /\ UNCHANGED <<vp_created, violated>>

CoreSetWindowSize(v, size) ==
    /\ Idle /\ vp_exists[v] /\ QueueHasRoom
    /\ set_window_size(v, size)
    /\ UNCHANGED <<vp_created, violated>>

CoreSetWindowFocus(v) ==
    /\ Idle /\ vp_exists[v] /\ QueueHasRoom
    /\ set_window_focus(v)
    /\ UNCHANGED <<vp_created, violated>>

CoreSetWindowTitle(v, title) ==
    /\ Idle /\ vp_exists[v] /\ QueueHasRoom
    /\ set_window_title(v, title)
    /\ UNCHANGED <<vp_created, violated>>

(* ------------------ Renderer::update_viewports (drain) ----------------- *)

\* HashMap::insert and HashMap::remove on extra_windows, and the values they
\* hand back (which the code drops on the spot).
\* Variant: insert leaves the map as it was.
HashMapInsertNothing(m, id, e) == m

HashMapInsert(m, id, e) == [k \in DOMAIN m \cup {id} |-> IF k = id THEN e ELSE m[k]]

\* Variant: remove leaves the entry in the map.
HashMapRemoveNothing(m, id) == m

HashMapRemove(m, id) == Without(m, {id})

\* Variant: the value insert/remove hands back is kept alive, not dropped.
DisplacedKept(m, id) == {}

Displaced(m, id) == IF id \in DOMAIN m THEN {m[id]} ELSE {}

\* Variant: the queue is popped at the back.
PopBack(q) == [event |-> q[Len(q)], rest |-> SubSeq(q, 1, Len(q) - 1)]

\* VecDeque::pop_front on a non-empty queue.
PopFront(q) == [event |-> Head(q), rest |-> Tail(q)]

\* Variant: the loop may break with events still queued.
QueueDrainedOrNot(q) == TRUE

\* pop_front returned None: the loop breaks.
QueueDrained(q) == q = <<>>

FreeWins == WinIds \ DOMAIN windows

FreeSurfs == WinIds \ DOMAIN surfaces

\* Variant: the window is built visible.
BuiltWindowVisible(id) ==
    [owner |-> id, pos |-> vp[id].pos, size |-> vp[id].size,
     visible |-> TRUE]

\* WindowBuilder in create_extra_window: position and inner size of the
\* viewport as it is now, not visible.
BuiltWindow(id) ==
    [owner |-> id, pos |-> vp[id].pos, size |-> vp[id].size,
     visible |-> FALSE]

\* The surface of window w, configured to the window's inner size.
BuiltSurface(id, w) == [owner |-> id, window |-> w, size |-> BuiltWindow(id).size]

\* Variant: the fields are dropped last to first.
DropOrderReversed(e) ==
    <<"window", "surface">> \o (IF e.renderer THEN <<"renderer">> ELSE <<>>)

\* The releases that dropping an entry makes, in order: the fields of the
\* tuple (Option<SRenderer>, Surface, Window) are dropped in the order they
\* are declared, and a None holds nothing to release.
DropOrder(e) ==
    (IF e.renderer THEN <<"renderer">> ELSE <<>>) \o <<"surface", "window">>

\* The entries of a set of at most one entry, as a sequence.
AsSeq(es) == IF es = {} THEN <<>> ELSE <<CHOOSE e \in es : TRUE>>

\* Variant: the renderer of a dropped entry stays alive.
ReleaseAllButRenderer(es, ws, ss, rs) ==
    [windows |-> Without(ws, {e.window : e \in es}),
     surfaces |-> Without(ss, {e.surface : e \in es}),
     renderers |-> rs]

\* Dropping entries releases their renderer, surface and window.
ReleaseAll(es, ws, ss, rs) ==
    [windows |-> Without(ws, {e.window : e \in es}),
     surfaces |-> Without(ss, {e.surface : e \in es}),
     renderers |-> rs - Cardinality({e \in es : e.renderer})]

UpdateFrame ==
    /\ UNCHANGED core_vars
    /\ UNCHANGED <<heap, seed, enq_log, violated>>
    /\ UNCHANGED <<frames, main_result, io_keys, last_cursor, main_cursor>>
    /\ UNCHANGED main_vars

\* Entry of the call.
UpdateViewportsCall ==
    /\ Idle
    /\ in_update' = TRUE
    /\ UNCHANGED <<event_queue, status>>
    /\ UNCHANGED native_vars
    /\ UNCHANGED ghost_drain
    /\ UNCHANGED window_cursor
    /\ UpdateFrame

\* One iteration pops the front event; ev is the event it dispatches.
Popped(ev) ==
    /\ in_update
    /\ status = "running"
    /\ ~QueueDrained(event_queue)
    /\ ev = PopFront(event_queue).event
    /\ event_queue' = PopFront(event_queue).rest
    /\ applied_log' = Append(applied_log, ev)
    /\ UNCHANGED in_update
    /\ UpdateFrame

\* Create(id), the viewport is known, window and surface are built:
\* create_extra_window returns Ok and the entry is inserted.
ApplyCreateBuilt(ev) ==
    /\ Popped(ev)
    /\ ev.tag = "Create"
    /\ vp_exists[ev.id]
    /\ FreeWins # {} /\ FreeSurfs # {}
    /\ LET w == Min(FreeWins)
           s == Min(FreeSurfs)
           entry == [renderer |-> FALSE, surface |-> s, window |-> w]
           left == ReleaseAll(Displaced(extra_windows, ev.id),
                              windows @@ (w :> BuiltWindow(ev.id)),
                              surfaces @@ (s :> BuiltSurface(ev.id, w)),
                              renderers)
       IN  /\ extra_windows' = HashMapInsert(extra_windows, ev.id, entry)
           /\ windows' = left.windows
           /\ surfaces' = left.surfaces
           /\ renderers' = left.renderers
           /\ window_cursor' = [window_cursor EXCEPT ![w] = "Default"]
    /\ vis_applied' = vis_applied \ {ev.id}
    /\ dropped' = dropped \o AsSeq(Displaced(extra_windows, ev.id))
    /\ UNCHANGED <<status, construct_failed>>

\* Create(id), the viewport is known, but WindowBuilder::build or
\* Instance::create_surface fails: the unwrap() panics.  A window built
\* before the surface failed is dropped by the unwinding.
ApplyCreateFailed(ev) ==
    /\ Popped(ev)
    /\ ev.tag = "Create"
    /\ vp_exists[ev.id]
    /\ status' = "panicked"
    /\ construct_failed' = TRUE
    /\ UNCHANGED native_vars
    /\ UNCHANGED <<vis_applied, dropped>>
    /\ UNCHANGED window_cursor

\* Variant: the missing viewport is unwrapped, which panics.
ApplyCreateSkippedUnwrap(ev) ==
    /\ Popped(ev)
    /\ ev.tag = "Create"
    /\ ~vp_exists[ev.id]
    /\ status' = "panicked"
    /\ UNCHANGED native_vars
    /\ UNCHANGED <<vis_applied, construct_failed, dropped>>
    /\ UNCHANGED window_cursor

\* Create(id) for an id the core no longer knows: nothing is built.
ApplyCreateSkipped(ev) ==
    /\ Popped(ev)
    /\ ev.tag = "Create"
    /\ ~vp_exists[ev.id]
    /\ UNCHANGED native_vars
    /\ UNCHANGED <<status, vis_applied, construct_failed, dropped>>
    /\ UNCHANGED window_cursor

ApplyDestroy(ev) ==
    /\ Popped(ev)
    /\ ev.tag = "Destroy"
    /\ LET left == ReleaseAll(Displaced(extra_windows, ev.id),
                              windows, surfaces, renderers)
       IN  /\ extra_windows' = HashMapRemove(extra_windows, ev.id)
           /\ windows' = left.windows
           /\ surfaces' = left.surfaces
           /\ renderers' = left.renderers
    /\ vis_applied' = vis_applied \ {ev.id}
    /\ dropped' = dropped \o AsSeq(Displaced(extra_windows, ev.id))
    /\ UNCHANGED <<status, construct_failed>>
    /\ UNCHANGED window_cursor

\* The window a SetPos/SetSize/SetVisible/SetFocus/SetTitle event leaves
\* behind (focus_window() and set_title() change nothing that is kept).
Requested(win, ev) ==
    CASE ev.tag = "SetPos" -> [win EXCEPT !.pos = ev.pos]
      [] ev.tag = "SetSize" -> [win EXCEPT !.size = ev.size]
      [] ev.tag = "SetVisible" -> [win EXCEPT !.visible = TRUE]
      [] OTHER -> win

SetTags == {"SetPos", "SetSize", "SetVisible", "SetFocus", "SetTitle"}

\* A Set* event whose id has an entry acts on that entry's window.
ApplySet(ev) ==
    /\ Popped(ev)
    /\ ev.tag \in SetTags
    /\ ev.id \in DOMAIN extra_windows
    /\ LET w == extra_windows[ev.id].window
       IN  windows' = [windows EXCEPT ![w] = Requested(windows[w], ev)]
    /\ vis_applied' = IF ev.tag = "SetVisible"
                      THEN vis_applied \cup {ev.id} ELSE vis_applied
    /\ UNCHANGED <<extra_windows, surfaces, renderers>>
    /\ UNCHANGED <<status, construct_failed, dropped>>
    /\ UNCHANGED window_cursor

\* Variant: a missing entry is unwrapped, which panics.
ApplySetAbsentUnwrap(ev) ==
    /\ Popped(ev)
    /\ ev.tag \in SetTags
    /\ ev.id \notin DOMAIN extra_windows
    /\ status' = "panicked"
    /\ UNCHANGED native_vars
    /\ UNCHANGED <<vis_applied, construct_failed, dropped>>
    /\ UNCHANGED window_cursor

\* A Set* event whose id has no entry: the `if let Some` does not match.
ApplySetAbsent(ev) ==
    /\ Popped(ev)
    /\ ev.tag \in SetTags
    /\ ev.id \notin DOMAIN extra_windows
    /\ UNCHANGED native_vars
    /\ UNCHANGED <<status, vis_applied, construct_failed, dropped>>
    /\ UNCHANGED window_cursor

\* The queue is empty: break, Ok(()).
UpdateViewportsReturn ==
    /\ in_update
    /\ status = "running"
    /\ QueueDrained(event_queue)
    /\ in_update' = FALSE
    /\ applied_log' = <<>>
    /\ dropped' = <<>>
    /\ enq_log' = event_queue
    /\ UNCHANGED <<event_queue, status, vis_applied, construct_failed>>
    /\ UNCHANGED native_vars
    /\ UNCHANGED core_vars
    /\ UNCHANGED <<heap, seed, violated>>
    /\ UNCHANGED outer_vars

(* ---------------------- Renderer::handle_event ------------------------ *)

\* The window events the model delivers.  A Resized or Moved event reports
\* what the window system has already done to the window.
WindowEvent(kind, size, pos, focus) ==
    [kind |-> kind, size |-> size, pos |-> pos, focus |-> focus]

Resized(size) == WindowEvent("Resized", size, 0, FALSE)

Moved(pos) == WindowEvent("Moved", <<0, 0>>, pos, FALSE)

CloseRequested == WindowEvent("CloseRequested", <<0, 0>>, 0, FALSE)

Focused(f) == WindowEvent("Focused", <<0, 0>>, 0, f)

OsEvents ==
    {Resized(s) : s \in Sizes} \cup {Moved(p) : p \in Poss}
        \cup {CloseRequested} \cup {Focused(f) : f \in BOOLEAN}

\* The native windows after the window system resized or moved window_id.
OsApplied(ws, window_id, ev) ==
    IF window_id \notin DOMAIN ws THEN ws
    ELSE CASE ev.kind = "Resized" -> [ws EXCEPT ![window_id].size = ev.size]
           [] ev.kind = "Moved" -> [ws EXCEPT ![window_id].pos = ev.pos]
           [] OTHER -> ws

\* Variant: the entry is taken without asking the core for its viewport.
TargetAnyEntry(window_id) ==
    IF window_id = MainWindow THEN {MainVp}
    ELSE {id \in DOMAIN extra_windows : extra_windows[id].window = window_id}

\* The viewport a window event belongs to: the main viewport for the main
\* window, else the key of the entry that holds the window, if the core
\* still knows that id; no viewport otherwise (the early returns).
Target(window_id) ==
    IF window_id = MainWindow THEN {MainVp}
    ELSE {id \in DOMAIN extra_windows :
            extra_windows[id].window = window_id /\ vp_exists[id]}

\* The events that write through platform_user_data.
WritesMetadata(ev) == ev.kind \in {"Resized", "Moved", "Focused"}

\* Variant: a Moved event leaves the recorded position as it was.
WrittenButPos(data, ev) ==
    CASE ev.kind = "Resized" -> [data EXCEPT !.size = ev.size]
      [] ev.kind = "Focused" -> [data EXCEPT !.focus = ev.focus]
      [] OTHER -> data

\* The ViewportData after the event's write.
Written(data, ev) ==
    CASE ev.kind = "Resized" -> [data EXCEPT !.size = ev.size]
      [] ev.kind = "Moved" -> [data EXCEPT !.pos = ev.pos]
      [] ev.kind = "Focused" -> [data EXCEPT !.focus = ev.focus]
      [] OTHER -> data

\* Variant: a close request of the main window raises the flag as well.
FlaggedAlsoMain(v, ev) ==
    CASE ev.kind = "Resized" -> {<<v, "resize">>}
      [] ev.kind = "Moved" -> {<<v, "move">>}
      [] ev.kind = "CloseRequested" -> {<<v, "close">>}
      [] OTHER -> {}

\* The platform_request_* flag the event raises on viewport v.
Flagged(v, ev) ==
    CASE ev.kind = "Resized" -> {<<v, "resize">>}
      [] ev.kind = "Moved" -> {<<v, "move">>}
      [] ev.kind = "CloseRequested" /\ v # MainVp -> {<<v, "close">>}
      [] OTHER -> {}

\* Variant: the surface is left for a later call to configure.
RoutedDeferred(window_id, v, ev) ==
    /\ platform_request' = platform_request \cup Flagged(v, ev)
    /\ display_size' = IF ev.kind = "Resized" /\ window_id = MainWindow
                       THEN ev.size ELSE display_size
    /\ windows' = OsApplied(windows, window_id, ev)
    /\ UNCHANGED <<vp_exists, vp_created, vp, event_queue, enq_log,
                   extra_windows, surfaces, renderers, in_update, violated>>
    /\ UNCHANGED ghost_drain

\* Variant: a close request of a secondary window drops its entry at once.
RoutedDroppingOnClose(window_id, v, ev) ==
    /\ platform_request' = platform_request \cup Flagged(v, ev)
    /\ display_size' = IF ev.kind = "Resized" /\ window_id = MainWindow
                       THEN ev.size ELSE display_size
    /\ windows' = OsApplied(windows, window_id, ev)
    /\ surfaces' = IF ev.kind = "Resized" /\ window_id # MainWindow
                   THEN [surfaces EXCEPT ![extra_windows[v].surface].size =
                            OsApplied(windows, window_id, ev)[window_id].size]
                   ELSE surfaces
    /\ extra_windows' = IF ev.kind = "CloseRequested" /\ window_id # MainWindow
                        THEN Without(extra_windows, {v}) ELSE extra_windows
    /\ UNCHANGED <<vp_exists, vp_created, vp, event_queue, enq_log,
                   renderers, in_update, violated>>
    /\ UNCHANGED ghost_drain

\* Everything of the handler but the write through platform_user_data.
Routed(window_id, v, ev) ==
    /\ platform_request' = platform_request \cup Flagged(v, ev)
    /\ display_size' = IF ev.kind = "Resized" /\ window_id = MainWindow
                       THEN ev.size ELSE display_size
    /\ windows' = OsApplied(windows, window_id, ev)
    /\ surfaces' = IF ev.kind = "Resized" /\ window_id # MainWindow
                   THEN [surfaces EXCEPT ![extra_windows[v].surface].size =
                            OsApplied(windows, window_id, ev)[window_id].size]
                   ELSE surfaces
    /\ UNCHANGED <<vp_exists, vp_created, vp, event_queue, enq_log,
                   extra_windows, renderers, in_update, violated>>
    /\ UNCHANGED ghost_drain

HandleEvent(window_id, ev) ==
    /\ Idle
    /\ \E v \in Target(window_id) :
        /\ WritesMetadata(ev) => vp[v].platform_user_data # NullPtr
        /\ heap' = IF WritesMetadata(ev)
                   THEN [heap EXCEPT ![vp[v].platform_user_data] = Written(@, ev)]
                   ELSE heap
        /\ seed' = IF v \in VpIds /\ ev.kind \in {"Resized", "Moved"}
                   THEN [seed EXCEPT ![v] = {}] ELSE seed
        /\ Routed(window_id, v, ev)
        /\ UNCHANGED status

\* A Resized(size) event of a secondary window that is handled after the
\* window system has resized the window again, to now: the metadata gets the
\* event's size, the surface is configured from window.inner_size().
HandleEventResizedLate(window_id, size, now) ==
    /\ Idle
    /\ window_id # MainWindow
    /\ now # size
    /\ \E v \in Target(window_id) :
        /\ vp[v].platform_user_data # NullPtr
        /\ heap' = [heap EXCEPT
                      ![vp[v].platform_user_data] = Written(@, Resized(size))]
        /\ seed' = [seed EXCEPT ![v] = {}]
        /\ Routed(window_id, v, Resized(now))
        /\ UNCHANGED status

\* The same events for a viewport whose platform_user_data is null (its
\* destroy_window has run, the Destroy is still queued): the write goes
\* through a null pointer, which is undefined behaviour.  The process is
\* killed, or the write is lost and the handler carries on.
HandleEventNullFault(window_id, ev) ==
    /\ Idle
    /\ \E v \in Target(window_id) :
        /\ WritesMetadata(ev)
        /\ vp[v].platform_user_data = NullPtr
    /\ status' = "aborted"
    /\ UNCHANGED core_vars
    /\ UNCHANGED native_vars
    /\ UNCHANGED <<heap, event_queue, enq_log, seed, in_update, violated>>
    /\ UNCHANGED ghost_drain
    /\ UNCHANGED outer_vars

HandleEventNullLost(window_id, ev) ==
    /\ Idle
    /\ \E v \in Target(window_id) :
        /\ WritesMetadata(ev)
        /\ vp[v].platform_user_data = NullPtr
        /\ Routed(window_id, v, ev)
    /\ UNCHANGED <<heap, seed, status>>

\* An event of a window that is neither the main window nor in the map, or
\* whose viewport the core no longer knows: handle_event returns at once.
HandleEventIgnored(window_id, ev) ==
    /\ Idle
    /\ window_id \in DOMAIN windows
    /\ Target(window_id) = {}
    /\ windows' = OsApplied(windows, window_id, ev)
    /\ windows' # windows
    /\ UNCHANGED core_vars
    /\ UNCHANGED <<heap, event_queue, enq_log, seed, in_update, status, violated,
                   extra_windows, surfaces, renderers>>
    /\ UNCHANGED ghost_drain
    /\ UNCHANGED outer_vars

(* ------------- the main window's size and the keyboard ----------------- *)

\* The window system resizes the main window: the window has the new inner
\* size at once, the Resized event that carries it is delivered later.
OsResizeMain(s) ==
    /\ status = "running"
    /\ s # main_window
    /\ Len(os_events) < MaxPending
    /\ main_window' = s
    /\ os_events' = Append(os_events, s)
    /\ UNCHANGED core_vars
    /\ UNCHANGED native_vars
    /\ UNCHANGED <<heap, event_queue, enq_log, seed, in_update, status,
                   violated, frames, main_result, main_surface, io_keys>>
    /\ UNCHANGED cursor_vars
    /\ UNCHANGED ghost_drain

\* Variant: the application leaves its surface as it is.
SampleSurfaceSizeKept == main_surface

\* The size the application configures its surface with on a Resized event
\* of the main window: window.inner_size() at the time of handling.
SampleSurfaceSize == main_window

\* The event loop's callback for the oldest pending Resized event of the
\* main window: handle_event, then the application's own Resized arm.
SampleResized ==
    /\ os_events # <<>>
    /\ HandleEvent(MainWindow, Resized(Head(os_events)))
    /\ main_surface' = SampleSurfaceSize
    /\ os_events' = Tail(os_events)
    /\ UNCHANGED <<main_window, frames, main_result, io_keys>>
    /\ UNCHANGED cursor_vars

\* The VirtualKeyCodes told apart: the eight modifier keys, one key with a
\* Key of its own, one that to_imgui_key does not map.
VirtualKeyCodes ==
    {"LShift", "RShift", "LControl", "RControl", "LAlt", "RAlt", "LWin",
     "RWin", "Tab", "Compose"}

\* Io::add_key_event
add_key_event(io, key, down) == Append(io, [key |-> key, down |-> down])

\* Variant: only the left modifier keys raise the general modifier.
handle_key_modifierLeftOnly(io, key, down) ==
    IF key = "LShift" THEN add_key_event(io, "ModShift", down)
    ELSE IF key = "LControl" THEN add_key_event(io, "ModCtrl", down)
    ELSE IF key = "LAlt" THEN add_key_event(io, "ModAlt", down)
    ELSE IF key = "LWin" THEN add_key_event(io, "ModSuper", down)
    ELSE io

handle_key_modifier(io, key, down) ==
    IF key = "LShift" \/ key = "RShift"
    THEN add_key_event(io, "ModShift", down)
    ELSE IF key = "LControl" \/ key = "RControl"
    THEN add_key_event(io, "ModCtrl", down)
    ELSE IF key = "LAlt" \/ key = "RAlt"
    THEN add_key_event(io, "ModAlt", down)
    ELSE IF key = "LWin" \/ key = "RWin"
    THEN add_key_event(io, "ModSuper", down)
    ELSE io

\* Option<Key>, with "None" for None.
to_imgui_key(keycode) ==
    CASE keycode = "Tab" -> "Tab"
      [] keycode = "LControl" -> "LeftCtrl"
      [] keycode = "LShift" -> "LeftShift"
      [] keycode = "LAlt" -> "LeftAlt"
      [] keycode = "LWin" -> "LeftSuper"
      [] keycode = "RControl" -> "RightCtrl"
      [] keycode = "RShift" -> "RightShift"
      [] keycode = "RAlt" -> "RightAlt"
      [] keycode = "RWin" -> "RightSuper"
      [] OTHER -> "None"

\* What changes neither on a key event nor when the core takes the keys.
KeyFrame ==
    /\ UNCHANGED core_vars
    /\ UNCHANGED native_vars
    /\ UNCHANGED <<heap, event_queue, enq_log, seed, in_update, status,
                   violated, frames, main_result>>
    /\ UNCHANGED ghost_drain
    /\ UNCHANGED main_vars
    /\ UNCHANGED cursor_vars

\* handle_event for WindowEvent::KeyboardInput with a virtual_keycode, on a
\* window that resolves to a viewport.
HandleKeyboardInput(window_id, key, pressed) ==
    /\ Idle
    /\ Target(window_id) # {}
    /\ Len(io_keys) + 2 <= MaxKeyEvents
    /\ LET io == handle_key_modifier(io_keys, key, pressed)
       IN  io_keys' = IF to_imgui_key(key) # "None"
                      THEN add_key_event(io, to_imgui_key(key), pressed)
                      ELSE io
    /\ KeyFrame

\* handle_event for DeviceEvent::Key with state Released.
HandleDeviceKeyReleased(key) ==
    /\ Idle
    /\ Len(io_keys) + 1 <= MaxKeyEvents
    /\ io_keys' = IF to_imgui_key(key) # "None"
                  THEN add_key_event(io_keys, to_imgui_key(key), FALSE)
                  ELSE io_keys
    /\ KeyFrame

\* imgui.frame(): the core takes the key events queued since the last one.
CoreNewFrame ==
    /\ Idle
    /\ io_keys # <<>>
    /\ io_keys' = <<>>
    /\ KeyFrame

(* -------------------- Renderer::render_viewports ----------------------- *)

Outcomes == {"presented", "acquire_failed", "render_failed"}

\* The secondary surface needs a new configuration (the code's test).
NeedsConfigure(win_size, surf_size) ==
    win_size[1] # surf_size[1] /\ win_size[2] # surf_size[2]

\* The loop body applied to the entries in D under outcomes o.
Rendered(D, o) ==
    /\ extra_windows' =
          [k \in DOMAIN extra_windows |->
              IF k \in D THEN [extra_windows[k] EXCEPT !.renderer = TRUE]
              ELSE extra_windows[k]]
    /\ renderers' = renderers
                      + Cardinality({k \in D : ~extra_windows[k].renderer})
    /\ surfaces' =
          [h \in DOMAIN surfaces |->
              IF /\ \E k \in D : /\ extra_windows[k].surface = h
                                 /\ vp_exists[k]
                                 /\ o[k] # "acquire_failed"
                 /\ NeedsConfigure(windows[surfaces[h].window].size,
                                   surfaces[h].size)
              THEN [surfaces[h] EXCEPT !.size = windows[surfaces[h].window].size]
              ELSE surfaces[h]]
    /\ UNCHANGED core_vars
    /\ UNCHANGED <<heap, event_queue, enq_log, seed, in_update, violated, windows>>
    /\ UNCHANGED ghost_drain

\* Variant: the draw is issued without asking the core for the viewport.
FailsUnasked(k, o) == o[k] = "render_failed"

Fails(k, o) == vp_exists[k] /\ o[k] = "render_failed"

\* Every entry is visited and no draw fails.
RenderViewports(o) ==
    /\ Idle
    /\ extra_windows # <<>>
    /\ \A k \in DOMAIN extra_windows : ~Fails(k, o)
    /\ Rendered(DOMAIN extra_windows, o)
    /\ UNCHANGED status

\* The draw of entry k fails: expect("Failed render") panics, after the
\* entries D that the map's iteration order put before k.
RenderViewportsPanic(k, D, o) ==
    /\ Idle
    /\ k \in D
    /\ \A j \in D : Fails(j, o) <=> j = k
    /\ Rendered(D, o)
    /\ status' = "panicked"

\* The orders in which the map's iteration may yield the keys K.
Orders(K) ==
    {q \in [1..Cardinality(K) -> K] :
        \A i, j \in 1..Cardinality(K) : q[i] = q[j] => i = j}

\* Variant: a frame that cannot be acquired ends the call (return, not
\* continue).
RECURSIVE VisitedUntilDropped(_, _)
VisitedUntilDropped(q, o) ==
    IF q = <<>> THEN {}
    ELSE IF vp_exists[Head(q)] /\ o[Head(q)] # "presented" THEN {Head(q)}
    ELSE {Head(q)} \cup VisitedUntilDropped(Tail(q), o)

\* The entries the loop reaches when it yields the keys in the order q
\* under outcomes o: a dropped frame goes on to the next entry (continue),
\* a failed draw panics and ends the loop.
RECURSIVE Visited(_, _)
Visited(q, o) ==
    IF q = <<>> THEN {}
    ELSE IF Fails(Head(q), o) THEN {Head(q)}
    ELSE {Head(q)} \cup Visited(Tail(q), o)

\* What one call did with each entry, D being the entries it reached.
Frames(D, o) ==
    [k \in DOMAIN extra_windows |->
        IF k \notin D THEN "unvisited"
        ELSE IF ~vp_exists[k] THEN "no_viewport"
        ELSE IF o[k] = "acquire_failed" THEN "dropped"
        ELSE IF o[k] = "render_failed" THEN "failed"
        ELSE "presented"]

\* render_viewports, the map yielding its keys in the order q, with a
\* record of what was done with each entry.
RenderViewportsInOrder(q, o) ==
    /\ Idle
    /\ extra_windows # <<>>
    /\ LET D == Visited(q, o)
       IN  /\ Rendered(D, o)
           /\ frames' = Frames(D, o)
           /\ status' = IF \E k \in D : Fails(k, o) THEN "panicked"
                         ELSE status
    /\ UNCHANGED <<main_result, io_keys>>
    /\ UNCHANGED main_vars
    /\ UNCHANGED cursor_vars

\* What the main renderer may report: success or a RendererError.
MainResults == {"Ok", "BadTexture"}

\* Variant: render reports success whatever the main renderer said.
renderSwallowed(r) == "Ok"

\* What render returns when the main renderer reports r: `?` hands an
\* error to the caller, and Ok(()) follows a success.
render(r) == IF r # "Ok" THEN r ELSE "Ok"

\* Renderer::render, the main renderer reporting r.
Render(r) ==
    /\ Idle
    /\ main_result' = <<r, render(r)>>
    /\ UNCHANGED core_vars
    /\ UNCHANGED native_vars
    /\ UNCHANGED <<heap, event_queue, enq_log, seed, in_update, status,
                   violated, frames, io_keys>>
    /\ UNCHANGED ghost_drain
    /\ UNCHANGED main_vars
    /\ UNCHANGED cursor_vars

(* ------------- the GUI core, breaking the callback contract ------------ *)

\* Records on the heap that no viewport points to.
Leaked ==
    Cardinality(DOMAIN heap \ {vp[v].platform_user_data : v \in AllVps})

\* create_window on a viewport that still has metadata attached: the
\* pointer is overwritten and the old record stays on the heap.
MisuseCreateWindow(v) ==
    /\ Idle
    /\ vp_exists[v]
    /\ vp[v].platform_user_data # NullPtr
    /\ QueueHasRoom
    /\ Leaked < MaxLeaked
    /\ create_window(v)
    /\ UNCHANGED <<vp_created, violated>>

MisuseFrame ==
    /\ violated' = TRUE
    /\ UNCHANGED <<vp_exists, vp_created, vp, platform_request, display_size,
                   heap, seed, in_update>>
    /\ UNCHANGED native_vars
    /\ UNCHANGED ghost_drain
    /\ UNCHANGED outer_vars

\* destroy_window on a viewport with no metadata attached:
\* Box::from_raw(null) is undefined behaviour.  The process is killed, or
\* the null box is "freed" and the callback carries on.
MisuseDestroyWindowFault(v) ==
    /\ Idle
    /\ vp_exists[v]
    /\ vp[v].platform_user_data = NullPtr
    /\ status' = "aborted"
    /\ UNCHANGED <<event_queue, enq_log>>
    /\ MisuseFrame

MisuseDestroyWindowGoesOn(v) ==
    /\ Idle
    /\ vp_exists[v]
    /\ vp[v].platform_user_data = NullPtr
    /\ QueueHasRoom
    /\ Enqueue(Destroy(v))
    /\ UNCHANGED status
    /\ MisuseFrame

\* get_window_pos/size/focus/minimized on a viewport with no metadata
\* attached read through a null pointer: the process is killed, or the
\* read yields some value and the core carries on with it.
MisuseGetFault(v) ==
    /\ Idle
    /\ vp_exists[v]
    /\ vp[v].platform_user_data = NullPtr
    /\ status' = "aborted"
    /\ UNCHANGED <<event_queue, enq_log>>
    /\ MisuseFrame

MisuseGetGoesOn(v) ==
    /\ Idle
    /\ vp_exists[v]
    /\ vp[v].platform_user_data = NullPtr
    /\ UNCHANGED <<event_queue, enq_log, status>>
    /\ MisuseFrame

(* --------------------------- specifications ---------------------------- *)

\* The steps of the environment and of the library, each over the viewports
\* V, positions P, sizes S, titles T, windows W and window events E that a
\* specification lets vary.

CoreViewports(V, P, S) ==
    \/ \E v \in V, p \in P, s \in S : CoreAddViewport(v, p, s)
    \/ \E v \in V : CoreRemoveViewport(v)

CoreLayout(V, P, S) ==
    \E v \in V, p \in P, s \in S : CoreLayoutViewport(v, p, s)

CoreWindows(V) ==
    \/ \E v \in V : CoreCreateWindow(v)
    \/ \E v \in V : CoreDestroyWindow(v)
    \/ \E v \in V : CoreShowWindow(v)

CoreGeometryRequests(V, P, S) ==
    \/ \E v \in V, p \in P : CoreSetWindowPos(v, p)
    \/ \E v \in V, s \in S : CoreSetWindowSize(v, s)

CoreOtherRequests(V, T) ==
    \/ \E v \in V : CoreSetWindowFocus(v)
    \/ \E v \in V, t \in T : CoreSetWindowTitle(v, t)

Events ==
    UNION {{Create(id), Destroy(id), SetVisible(id), SetFocus(id)}
             \cup {SetPos(id, p) : p \in Poss}
             \cup {SetSize(id, s) : s \in Sizes}
             \cup {SetTitle(id, t) : t \in Titles} : id \in VpIds}

UpdateViewportsStep ==
    \/ UpdateViewportsCall
    \/ \E ev \in Events : ApplyCreateBuilt(ev)
    \/ \E ev \in Events : ApplyCreateFailed(ev)
    \/ \E ev \in Events : ApplyCreateSkipped(ev)
    \/ \E ev \in Events : ApplyDestroy(ev)
    \/ \E ev \in Events : ApplySet(ev)
    \/ \E ev \in Events : ApplySetAbsent(ev)
    \/ UpdateViewportsReturn

HandleEventStep(W, E) ==
    \/ \E w \in W, ev \in E : HandleEvent(w, ev) /\ UNCHANGED outer_vars
    \/ \E w \in W, ev \in E : HandleEventNullFault(w, ev)
    \/ \E w \in W, ev \in E : HandleEventNullLost(w, ev) /\ UNCHANGED outer_vars

HandleEventIgnoredStep(W, E) ==
    \E w \in W, ev \in E : HandleEventIgnored(w, ev)

\* render_viewports where what reaches the screen is not recorded.
RenderViewportsStep ==
    \/ \E o \in [DOMAIN extra_windows -> Outcomes] :
         RenderViewports(o) /\ UNCHANGED outer_vars
    \/ \E o \in [DOMAIN extra_windows -> Outcomes] :
         \E D \in SUBSET DOMAIN extra_windows, k \in DOMAIN extra_windows :
            RenderViewportsPanic(k, D, o) /\ UNCHANGED outer_vars

MisuseStep ==
    \/ \E v \in VpIds : MisuseCreateWindow(v)
    \/ \E v \in VpIds : MisuseDestroyWindowFault(v)
    \/ \E v \in VpIds : MisuseDestroyWindowGoesOn(v)
    \/ \E v \in VpIds : MisuseGetFault(v)
    \/ \E v \in VpIds : MisuseGetGoesOn(v)

\* The geometry every viewport has where geometry is not varied.
Pos0 == Min(Poss)

Size0 == <<1, 1>>

FocusEvents == {CloseRequested} \cup {Focused(f) : f \in BOOLEAN}

GeometryEvents == {Resized(s) : s \in Sizes} \cup {Moved(p) : p \in Poss}

\* Lifecycle: every secondary viewport, created, shown, focused, retitled
\* and destroyed; window and surface construction that may fail; rendering.
\* Every viewport has the same geometry, so the position and size requests
\* are left to SpecGeometry.  The GUI core keeps the callback contract.
Next ==
    \/ CoreViewports(VpIds, {Pos0}, {Size0})
    \/ CoreWindows(VpIds)
    \/ CoreOtherRequests(VpIds, Titles)
    \/ CoreClearRequests
    \/ UpdateViewportsStep
    \/ HandleEventStep(WinIds, FocusEvents)
    \/ RenderViewportsStep

Spec == Init /\ [][Next]_vars

\* Geometry: one secondary viewport whose position and size vary in the
\* core, in its metadata, in its window and in its surface, with every
\* kind of queued event.
GeometryViewports == {Min(VpIds)}

NextGeometry ==
    \/ CoreViewports(GeometryViewports, Poss, Sizes)
    \/ CoreLayout(GeometryViewports, Poss, Sizes)
    \/ CoreWindows(GeometryViewports)
    \/ CoreGeometryRequests(GeometryViewports, Poss, Sizes)
    \/ CoreOtherRequests(GeometryViewports, Titles)
    \/ CoreClearRequests
    \/ UpdateViewportsStep
    \/ HandleEventStep(WinIds, GeometryEvents)
    \/ HandleEventIgnoredStep(WinIds, GeometryEvents)

SpecGeometry == Init /\ [][NextGeometry]_vars

\* Creation and destruction with a caller that may also break the callback
\* contract: create_window twice, destroy_window twice, a getter on a
\* viewport without metadata.
NextAnyCaller ==
    \/ CoreViewports(VpIds, {Pos0}, {Size0})
    \/ CoreWindows(VpIds)
    \/ UpdateViewportsStep
    \/ RenderViewportsStep
    \/ MisuseStep

SpecAnyCaller == Init /\ [][NextAnyCaller]_vars

RenderStep == \E r \in MainResults : Render(r)

RenderViewportsInOrderStep ==
    \E q \in Orders(DOMAIN extra_windows),
       o \in [DOMAIN extra_windows -> Outcomes] : RenderViewportsInOrder(q, o)

\* Drawing: the main viewport's render and render_viewports over every
\* secondary viewport, with what each call did on record.
NextRender ==
    \/ CoreViewports(VpIds, {Pos0}, {Size0})
    \/ CoreWindows(VpIds)
    \/ UpdateViewportsStep
    \/ RenderStep
    \/ RenderViewportsInOrderStep

SpecRender == Init /\ [][NextRender]_vars

\* Who changes what: the main window and one secondary viewport whose window
\* the core and the window system resize, move and close, with the
\* callbacks, the drain, handle_event and render_viewports all taking turns.
\* The viewport may start with a size that differs from the others in both
\* dimensions.
NextSurface ==
    \/ CoreViewports(GeometryViewports, {Pos0}, {Size0, <<2, 2>>})
    \/ CoreWindows(GeometryViewports)
    \/ CoreGeometryRequests(GeometryViewports, {Pos0}, Sizes)
    \/ CoreClearRequests
    \/ UpdateViewportsStep
    \/ HandleEventStep(WinIds \cup {MainWindow},
                       {Resized(s) : s \in Sizes}
                         \cup {Moved(p) : p \in Poss \ {Pos0}}
                         \cup {CloseRequested})
    \/ \E w \in WinIds, s \in Sizes, now \in Sizes :
         HandleEventResizedLate(w, s, now) /\ UNCHANGED outer_vars
    \/ RenderViewportsStep

SpecSurface == Init /\ [][NextSurface]_vars

\* Input of the main window: resizes whose events arrive later than the
\* window changes, and the keyboard.
NextInput ==
    \/ \E s \in Sizes : OsResizeMain(s)
    \/ SampleResized
    \/ CoreClearRequests
    \/ \E key \in VirtualKeyCodes, pressed \in BOOLEAN :
         HandleKeyboardInput(MainWindow, key, pressed)
    \/ \E key \in VirtualKeyCodes : HandleDeviceKeyReleased(key)
    \/ CoreNewFrame

SpecInput == Init /\ [][NextInput]_vars

\* Metadata: one secondary viewport whose record is seeded by create_window
\* and then written by the Resized, Moved and Focused events of its window.
NextMetadata ==
    \/ CoreViewports(GeometryViewports, {Pos0}, Sizes)
    \/ CoreWindows(GeometryViewports)
    \/ CoreClearRequests
    \/ UpdateViewportsStep
    \/ HandleEventStep(WinIds, GeometryEvents \cup FocusEvents)

SpecMetadata == Init /\ [][NextMetadata]_vars

(* ------------------------------ the cursor ----------------------------- *)

\* imgui::MouseCursor.
MouseCursors ==
    {"Arrow", "TextInput", "ResizeAll", "ResizeNS", "ResizeEW", "ResizeNESW",
     "ResizeNWSE", "Hand", "NotAllowed"}

\* Renderer::to_winit_cursor.
to_winit_cursor(cursor) ==
    CASE cursor = "Arrow" -> "Default"
      [] cursor = "TextInput" -> "Text"
      [] cursor = "ResizeAll" -> "Move"
      [] cursor = "ResizeNS" -> "NsResize"
      [] cursor = "ResizeEW" -> "EwResize"
      [] cursor = "ResizeNESW" -> "NeswResize"
      [] cursor = "ResizeNWSE" -> "NwseResize"
      [] cursor = "Hand" -> "Hand"
      [] cursor = "NotAllowed" -> "NotAllowed"

\* What imgui.mouse_cursor() reports in the runs explored: no cursor, or
\* one of three.
ReportedCursors == {"None", "Arrow", "TextInput", "Hand"}

\* Renderer::prepare_render, imgui.mouse_cursor() reporting c.  The icons
\* are set only when the converted cursor differs from last_cursor, and
\* then on the main window and on the window of every entry of the map.
prepare_render(c) ==
    /\ Idle
    /\ c \in MouseCursors \cup {"None"}
    /\ IF c # "None" /\ last_cursor # to_winit_cursor(c)
       THEN LET cursor == to_winit_cursor(c)
            IN  /\ main_cursor' = cursor
                /\ window_cursor' =
                     [w \in WinIds |->
                        IF \E k \in DOMAIN extra_windows :
                             extra_windows[k].window = w
                        THEN cursor ELSE window_cursor[w]]
                /\ last_cursor' = cursor
       ELSE UNCHANGED cursor_vars
    /\ UNCHANGED core_vars
    /\ UNCHANGED native_vars
    /\ UNCHANGED <<heap, event_queue, enq_log, seed, in_update, status,
                   violated, frames, main_result, io_keys>>
    /\ UNCHANGED ghost_drain
    /\ UNCHANGED main_vars

\* The frame of an application with secondary viewports, as far as the
\* cursor goes: the core opens and closes viewports, prepare_render and
\* update_viewports run.
NextCursor ==
    \/ CoreViewports(VpIds, {Pos0}, {Size0})
    \/ CoreWindows(VpIds)
    \/ UpdateViewportsStep
    \/ \E c \in ReportedCursors : prepare_render(c)

SpecCursor == Init /\ [][NextCursor]_vars

(* ------------------------------ properties ----------------------------- *)

\* Vocabulary of the properties.
LiveWindows(id) == {w \in DOMAIN windows : windows[w].owner = id}

LiveSurfaces(id) == {h \in DOMAIN surfaces : surfaces[h].owner = id}

Entries(id) == IF id \in DOMAIN extra_windows THEN {extra_windows[id]} ELSE {}

AllEntries == {extra_windows[k] : k \in DOMAIN extra_windows}

WithRenderer == {k \in DOMAIN extra_windows : extra_windows[k].renderer}

\* Every live window, surface and secondary renderer belongs to an entry.
NothingLeaked ==
    /\ DOMAIN windows = {e.window : e \in AllEntries}
    /\ DOMAIN surfaces = {e.surface : e \in AllEntries}
    /\ renderers = Cardinality(WithRenderer)

\* The drain in progress has just applied Destroy(id) and then Create(id).
DestroyThenCreate(id) ==
    /\ Len(applied_log) >= 2
    /\ applied_log[Len(applied_log) - 1] = Destroy(id)
    /\ applied_log[Len(applied_log)] = Create(id)

\* The front event of a drain in progress is a Set* event without an entry.
AbsentSetAtFront ==
    /\ in_update /\ status = "running"
    /\ event_queue # <<>>
    /\ Head(event_queue).tag \in SetTags
    /\ Head(event_queue).id \notin DOMAIN extra_windows

\* The pointers the viewports hold.
Attached == {vp[v].platform_user_data : v \in AllVps} \ {NullPtr}

\* C1: whatever Create(id)/Destroy(id) events update_viewports has processed,
\* repeated Create without Destroy included, each id has at most one live
\* window and at most one live surface, and they are the ones of its entry
\* in the map; no more secondary renderers live than entries hold.
C1_AtMostOneEntry ==
    /\ \A id \in VpIds :
        /\ Cardinality(LiveWindows(id)) <= 1
        /\ Cardinality(LiveSurfaces(id)) <= 1
        /\ LiveWindows(id) = {e.window : e \in Entries(id)}
        /\ LiveSurfaces(id) = {e.surface : e \in Entries(id)}
    /\ renderers = Cardinality(WithRenderer)

\* A drain has applied Create(1) twice in a row, and the second displaced
\* the entry of the first.
C1_RepeatedCreate ==
    /\ in_update /\ status = "running"
    /\ Len(applied_log) = 2
    /\ applied_log[1] = Create(1) /\ applied_log[2] = Create(1)
    /\ Len(dropped) = 1
    /\ 1 \in DOMAIN extra_windows

\* C2: when a drain has applied Destroy(id) immediately followed by
\* Create(id) for a viewport the core still knows, id has exactly one entry,
\* a fresh one, and no window, surface or renderer lives outside the map.
C2_DestroyCreateOneEntry ==
    \A id \in VpIds :
        (in_update /\ status = "running" /\ vp_exists[id] /\ DestroyThenCreate(id))
        => /\ id \in DOMAIN extra_windows
           /\ ~extra_windows[id].renderer
           /\ Cardinality(LiveWindows(id)) = 1
           /\ Cardinality(LiveSurfaces(id)) = 1
           /\ NothingLeaked

\* The drain has replaced an entry of viewport 1 that held a renderer.
C2_ReplacedRenderedEntry ==
    /\ in_update /\ status = "running" /\ vp_exists[1]
    /\ event_queue = <<>>
    /\ DestroyThenCreate(1)
    /\ Len(dropped) = 1 /\ dropped[1].renderer
    /\ 1 \in DOMAIN extra_windows

\* C3: the events the callbacks enqueued are the events the drain has
\* applied, in the same order, followed by the events still queued: nothing
\* is reordered, applied twice or lost.
C3_FifoExactlyOnce == enq_log = applied_log \o event_queue

\* A drain has applied two different events of the same viewport.
C3_TwoEventsOfOneId ==
    /\ in_update
    /\ Len(applied_log) = 2
    /\ applied_log[1] = Create(1)
    /\ applied_log[2] = SetVisible(1)
    /\ event_queue = <<>>

\* C4: every step of update_viewports that does not panic either shortens
\* the queue and stays in the loop, or returns with the queue empty; so the
\* call ends after as many iterations as events were queued, with none left.
C4_DrainsToEmpty ==
    [][(in_update /\ status' = "running")
         => IF in_update'
            THEN Len(event_queue') < Len(event_queue)
            ELSE event_queue' = <<>>]_vars

\* update_viewports has returned after building the windows of both
\* viewports, and the queue is empty.
C4_Returned ==
    /\ ~in_update /\ status = "running"
    /\ event_queue = <<>>
    /\ DOMAIN extra_windows = VpIds

\* C5: while no OS resize or move has reached a viewport since its
\* create_window, get_window_pos and get_window_size return the position and
\* size the viewport had at create_window, whatever is queued or drained.
C5_GettersReturnSeed ==
    \A v \in VpIds :
        (vp[v].platform_user_data # NullPtr /\ seed[v] # {})
        => seed[v] = {[pos |-> get_window_pos(v), size |-> get_window_size(v)]}

\* The Create of viewport 1 is still queued and the core has since moved or
\* resized the viewport.
C5_SeededThenLaidOut ==
    /\ vp[1].platform_user_data # NullPtr
    /\ seed[1] # {}
    /\ [pos |-> vp[1].pos, size |-> vp[1].size] \notin seed[1]
    /\ event_queue # <<>> /\ Head(event_queue) = Create(1)

\* C6: dispatching a SetPos, SetSize, SetVisible, SetFocus or SetTitle event
\* whose id has no entry changes neither the map nor any window, surface or
\* renderer, does not fail, and leaves the loop running on the rest of the
\* queue.
C6_AbsentSetIsNoOp ==
    [][AbsentSetAtFront
         => /\ UNCHANGED native_vars
            /\ status' = "running"
            /\ in_update'
            /\ event_queue' = Tail(event_queue)]_vars

\* A drain has destroyed the entry of viewport 1 and then dropped a SetPos or
\* SetSize for it.
C6_SetAfterDestroy ==
    /\ in_update /\ status = "running"
    /\ Len(applied_log) = 2
    /\ applied_log[1] = Destroy(1)
    /\ applied_log[2].tag \in {"SetPos", "SetSize"}
    /\ applied_log[2].id = 1
    /\ Len(dropped) = 1
    /\ 1 \notin DOMAIN extra_windows

\* C7: the window a Create(id) builds has the viewport's current position
\* and size and is not visible; and a secondary window is visible only if
\* SetVisible(id) was applied to the entry that holds it.
C7_HiddenUntilShown ==
    /\ [](\A id \in DOMAIN extra_windows :
            windows[extra_windows[id].window].visible => id \in vis_applied)
    /\ [][\A id \in VpIds :
            (/\ in_update /\ status' = "running"
             /\ event_queue # <<>>
             /\ Head(event_queue) = Create(id)
             /\ vp_exists[id])
            => /\ id \in DOMAIN extra_windows'
               /\ windows'[extra_windows'[id].window] =
                    [owner |-> id, pos |-> vp[id].pos, size |-> vp[id].size,
                     visible |-> FALSE]]_vars

\* A drain has built the window of viewport 1 and then shown it.
C7_CreatedThenShown ==
    /\ in_update
    /\ applied_log = <<Create(1), SetVisible(1)>>
    /\ 1 \in DOMAIN extra_windows
    /\ windows[extra_windows[1].window].visible

\* C8: after any sequence of backend callbacks every allocated metadata
\* record is attached to a viewport and every attachment is an allocated
\* record: none is leaked.
C8_NoRecordLeaked == DOMAIN heap = Attached

\* C9: a window or surface construction that fails while a Create is
\* processed does not end the process: update_viewports returns.
C9_FailureIsReturned == construct_failed => status = "running"

\* C10: a destroy_window or a metadata read on a viewport with no metadata
\* attached is detected: the process aborts, and never carries on.
C10_MisuseAborts == violated => status = "aborted"

\* A callback has just pushed a Set* event.
RequestPushed ==
    /\ Len(event_queue') > Len(event_queue)
    /\ event_queue'[Len(event_queue')].tag \in SetTags

\* C16: a step in which show_window, set_window_pos, set_window_size,
\* set_window_focus or set_window_title pushes its event appends exactly
\* that one event to the queue and leaves every viewport, every metadata
\* record (so what the getters return) and the secondary-window map, its
\* windows and surfaces as they were.
C16_RequestsOnlyEnqueue ==
    [][RequestPushed
         => /\ event_queue' =
                 Append(event_queue, event_queue'[Len(event_queue')])
            /\ UNCHANGED <<vp, heap>>
            /\ UNCHANGED native_vars]_vars

\* set_window_pos has been called on viewport 1, which has metadata, with a
\* position other than the one the metadata holds.
C16_RequestDiffersFromMetadata ==
    /\ ~in_update
    /\ vp[1].platform_user_data # NullPtr
    /\ event_queue # <<>>
    /\ event_queue[Len(event_queue)].tag = "SetPos"
    /\ event_queue[Len(event_queue)].id = 1
    /\ event_queue[Len(event_queue)].pos # get_window_pos(1)

\* C19: dispatching Create(id) for an id the GUI core no longer knows builds
\* nothing and changes neither the map nor any window, surface or renderer,
\* does not fail, and leaves the loop running on the rest of the queue.
C19_CreateOfGoneViewportSkipped ==
    [][\A id \in VpIds :
         (/\ in_update /\ status = "running"
          /\ event_queue # <<>>
          /\ Head(event_queue) = Create(id)
          /\ ~vp_exists[id])
         => /\ UNCHANGED native_vars
            /\ status' = "running"
            /\ in_update'
            /\ event_queue' = Tail(event_queue)]_vars

\* A drain has skipped the Create of viewport 1, which the core removed
\* after destroy_window, and gone on to its Destroy.
C19_SkippedThenWentOn ==
    /\ in_update /\ status = "running"
    /\ ~vp_exists[1]
    /\ applied_log = <<Create(1), Destroy(1)>>
    /\ 1 \notin DOMAIN extra_windows

C18_NoEventReachesReleased ==
    Idle => \A id \in DOMAIN extra_windows :
                vp_exists[id] => vp[id].platform_user_data # NullPtr

\* C11: when render_viewports cannot acquire the frame of one entry, it
\* only skips that entry: unless a draw fails, the call returns, it has
\* reached every entry, every entry with a viewport whose frame was acquired
\* is presented, and the map keeps every entry.
C11_DroppedFrameSkipsOnlyItself ==
    [][(/\ frames' # frames
        /\ \A k \in DOMAIN frames' : frames'[k] # "failed")
       => /\ status' = "running"
          /\ \A k \in DOMAIN frames' : frames'[k] # "unvisited"
          /\ DOMAIN frames' = DOMAIN extra_windows
          /\ DOMAIN extra_windows' = DOMAIN extra_windows
          /\ \A k \in DOMAIN extra_windows' :
                /\ extra_windows'[k].window = extra_windows[k].window
                /\ extra_windows'[k].surface = extra_windows[k].surface]_vars

C11_OneDroppedOnePresented ==
    /\ status = "running"
    /\ DOMAIN frames = VpIds
    /\ \E k \in VpIds : frames[k] = "dropped"
    /\ \E k \in VpIds : frames[k] = "presented"
    /\ DOMAIN extra_windows = VpIds

\* C12: an error while drawing a secondary viewport does not abort the
\* process.
C12_SecondaryErrorContained ==
    (\E k \in DOMAIN frames : frames[k] = "failed") => status = "running"

\* C13: render returns what the main renderer reported, an error as the
\* same error and Ok only for a success, and the call changes neither the
\* event queue nor the map, the windows, the surfaces or the renderers.
C13_RenderReturnsMainResult ==
    /\ [](main_result # <<>> => main_result[2] = main_result[1])
    /\ [][main_result' # main_result
            => /\ event_queue' = event_queue
               /\ UNCHANGED native_vars]_vars

C13_ErrorReturnedWithWorkPending ==
    /\ main_result = <<"BadTexture", "BadTexture">>
    /\ event_queue # <<>>
    /\ extra_windows # <<>>

C14_SurfaceGetsEventSize ==
    [][(os_events # <<>> /\ os_events' = Tail(os_events))
       => /\ display_size' = Head(os_events)
          /\ main_surface' = Head(os_events)]_vars

\* C14, amended: when a Resized(W,H) event of the main window is handled,
\* the display size becomes (W,H) and the main surface is configured with
\* the inner size the window has at that moment, which is (W,H) when no
\* later resize of the window is pending; once every Resized event has been
\* handled, display size and surface size both equal the window's size.
C14_SurfaceGetsWindowSize ==
    /\ [][(os_events # <<>> /\ os_events' = Tail(os_events))
          => /\ display_size' = Head(os_events)
             /\ main_surface' = main_window
             /\ Len(os_events) = 1 => main_surface' = Head(os_events)]_vars
    /\ [](os_events = <<>>
            => display_size = main_window /\ main_surface = main_window)

C14_HandledWithLaterResizePending ==
    /\ Len(os_events) = 1
    /\ <<MainVp, "resize">> \in platform_request
    /\ display_size # main_window
    /\ main_surface = main_window
    /\ main_surface # Size0

\* C15: a KeyboardInput of a left or right modifier key on a known window
\* adds exactly two key events, the general Mod* one and the key's own, both
\* with the input's pressed value (TRUE for a press, FALSE for a release);
\* a mapped key that is no modifier adds exactly one.
C15_ModifierKeyAddsTwoEvents ==
    [][LET Mod == [k \in VirtualKeyCodes \ {"Tab", "Compose"} |->
                     CASE k \in {"LShift", "RShift"} -> "ModShift"
                       [] k \in {"LControl", "RControl"} -> "ModCtrl"
                       [] k \in {"LAlt", "RAlt"} -> "ModAlt"
                       [] k \in {"LWin", "RWin"} -> "ModSuper"]
           Own == [k \in VirtualKeyCodes \ {"Tab", "Compose"} |->
                     CASE k = "LShift" -> "LeftShift"
                       [] k = "RShift" -> "RightShift"
                       [] k = "LControl" -> "LeftCtrl"
                       [] k = "RControl" -> "RightCtrl"
                       [] k = "LAlt" -> "LeftAlt"
                       [] k = "RAlt" -> "RightAlt"
                       [] k = "LWin" -> "LeftSuper"
                       [] k = "RWin" -> "RightSuper"]
       IN  \A key \in VirtualKeyCodes, pressed \in BOOLEAN :
              HandleKeyboardInput(MainWindow, key, pressed)
              => /\ key \in DOMAIN Mod
                    => io_keys' = io_keys
                                    \o <<[key |-> Mod[key], down |-> pressed],
                                         [key |-> Own[key], down |-> pressed]>>
                 /\ key = "Tab"
                    => io_keys' = io_keys
                                    \o <<[key |-> "Tab", down |-> pressed]>>]_vars

C15_RightShiftReleased ==
    io_keys = <<[key |-> "ModShift", down |-> FALSE],
                [key |-> "RightShift", down |-> FALSE]>>

\* C29: for a core that keeps the callback contract, whenever
\* update_viewports returns, the ids keyed in the map are exactly the
\* secondary viewports that hold metadata (create_window called,
\* destroy_window not since), however the create_window and destroy_window
\* calls of one or several ids were ordered before the drain.
C29_MapEqualsLiveMetadata ==
    [][(in_update /\ ~in_update' /\ status' = "running")
       => DOMAIN extra_windows'
            = {v \in VpIds : vp'[v].platform_user_data # NullPtr}]_vars

C29_DestroyedThenRecreated ==
    /\ in_update /\ status = "running"
    /\ event_queue = <<>>
    /\ applied_log = <<Destroy(1), Create(1)>>
    /\ DOMAIN extra_windows = VpIds

\* C22: the renderer slot of an entry is filled only in a render_viewports
\* call that draws the entry's viewport.
C22_RendererOnlyWhenDrawn ==
    [][\A k \in DOMAIN extra_windows \cap DOMAIN extra_windows' :
          (~extra_windows[k].renderer /\ extra_windows'[k].renderer)
          => /\ k \in DOMAIN frames'
             /\ frames'[k] \in {"presented", "failed"}]_vars

C21_SurfaceMatchesWindowAfterRender ==
    [][\A o \in [DOMAIN extra_windows -> Outcomes] :
          RenderViewports(o)
          => \A k \in DOMAIN extra_windows :
                (vp_exists[k] /\ o[k] = "presented")
                => surfaces'[extra_windows[k].surface].size
                     = windows[extra_windows[k].window].size]_vars

\* C24: handle_event on Resized(new_size) writes new_size into the metadata
\* of the target viewport and raises its resize flag; on Moved it writes the
\* window's position and raises the move flag; the target is the main
\* viewport for the main window and else the key of the entry that holds the
\* window; the metadata and the flags of every other viewport stay as they
\* were.  For a target whose metadata is attached.
C24_EventWritesTargetMetadata ==
    [][\A w \in WinIds \cup {MainWindow} :
          LET T == IF w = MainWindow THEN {MainVp}
                   ELSE {k \in DOMAIN extra_windows :
                           extra_windows[k].window = w}
              Others(v) ==
                  \A u \in AllVps \ {v} :
                     /\ vp[u].platform_user_data \in DOMAIN heap
                          => heap'[vp[u].platform_user_data]
                               = heap[vp[u].platform_user_data]
                     /\ \A f \in {"resize", "move", "close"} :
                          <<u, f>> \in platform_request'
                            <=> <<u, f>> \in platform_request
          IN  /\ \A s \in Sizes :
                   (\/ HandleEvent(w, Resized(s))
                    \/ \E now \in Sizes : HandleEventResizedLate(w, s, now))
                   => \E v \in T :
                        /\ heap'[vp[v].platform_user_data]
                             = [heap[vp[v].platform_user_data] EXCEPT !.size = s]
                        /\ <<v, "resize">> \in platform_request'
                        /\ vp' = vp
                        /\ Others(v)
              /\ \A p \in Poss :
                   HandleEvent(w, Moved(p))
                   => \E v \in T :
                        /\ heap'[vp[v].platform_user_data]
                             = [heap[vp[v].platform_user_data] EXCEPT !.pos = p]
                        /\ w # MainWindow => windows'[w].pos = p
                        /\ <<v, "move">> \in platform_request'
                        /\ vp' = vp
                        /\ Others(v)]_vars

C24_SecondaryMovedMainUntouched ==
    /\ ~in_update /\ status = "running"
    /\ platform_request = {<<1, "move">>}
    /\ vp[1].platform_user_data # NullPtr
    /\ get_window_pos(1) # Pos0
    /\ vp[1].pos = Pos0
    /\ get_window_pos(MainVp) = Pos0

\* C25 as stated: a Resized(new_size) event of a secondary window
\* configures the surface of that window to exactly new_size within the
\* call and leaves the display size alone.
C25_SurfaceGetsResizedSize ==
    [][\A w \in WinIds, s \in Sizes :
          (\/ HandleEvent(w, Resized(s))
           \/ \E now \in Sizes : HandleEventResizedLate(w, s, now))
          => /\ display_size' = display_size
             /\ \A k \in DOMAIN extra_windows :
                   extra_windows[k].window = w
                   => surfaces'[extra_windows[k].surface].size = s]_vars

\* C25, amended: a Resized(new_size) event of a secondary window configures
\* the surface of that window, within the same handle_event call and without
\* touching the queue, to the inner size the window has at that moment, which
\* is new_size unless the window was resized again before the event was
\* handled; the display size stays.  A Resized event of the main window sets
\* the display size to new_size and configures no secondary surface.
C25_SurfaceGetsWindowSizeAtOnce ==
    [][/\ \A w \in WinIds, s \in Sizes :
            (\/ HandleEvent(w, Resized(s))
             \/ \E now \in Sizes : HandleEventResizedLate(w, s, now))
            => /\ display_size' = display_size
               /\ event_queue' = event_queue
               /\ \A k \in DOMAIN extra_windows :
                     extra_windows[k].window = w
                     => /\ surfaces'[extra_windows[k].surface].size
                             = windows'[w].size
                        /\ windows'[w].size = s
                             => surfaces'[extra_windows[k].surface].size = s
       /\ \A s \in Sizes :
            HandleEvent(MainWindow, Resized(s))
            => display_size' = s /\ surfaces' = surfaces]_vars

C25_ResizedAgainBeforeHandled ==
    /\ ~in_update /\ status = "running"
    /\ platform_request = {<<1, "resize">>}
    /\ 1 \in DOMAIN extra_windows
    /\ vp[1].platform_user_data # NullPtr
    /\ surfaces[extra_windows[1].surface].size
         = windows[extra_windows[1].window].size
    /\ get_window_size(1) # windows[extra_windows[1].window].size

\* C26: CloseRequested raises the close flag of the viewport of a secondary
\* window and of no other viewport, and no flag at all for the main window;
\* the call pushes no event and removes or changes no entry, window or
\* surface.
C26_CloseOnlyFlagsSecondary ==
    [][\A w \in WinIds \cup {MainWindow} :
          HandleEvent(w, CloseRequested)
          => /\ platform_request'
                  = platform_request
                      \cup {<<k, "close">> :
                              k \in {j \in DOMAIN extra_windows :
                                       /\ extra_windows[j].window = w
                                       /\ w # MainWindow}}
             /\ UNCHANGED <<event_queue, extra_windows, windows, surfaces>>
             /\ UNCHANGED <<vp, heap, display_size>>]_vars

C26_CloseFlaggedEntryKept ==
    /\ ~in_update /\ status = "running"
    /\ platform_request = {<<1, "close">>}
    /\ 1 \in DOMAIN extra_windows
    /\ event_queue = <<>>

C27_GettersReturnLastWrite ==
    [][\A v \in VpIds :
          LET E == GeometryEvents \cup FocusEvents
              Holds(w) == /\ v \in DOMAIN extra_windows
                          /\ extra_windows[v].window = w
              Hit == \E w \in WinIds, ev \in E : Holds(w) /\ HandleEvent(w, ev)
          IN  /\ (/\ vp[v].platform_user_data = NullPtr
                  /\ vp'[v].platform_user_data # NullPtr)
                 => /\ get_window_pos(v)' = vp[v].pos
                    /\ get_window_size(v)' = vp[v].size
                    /\ get_window_focus(v)' = FALSE
              /\ (/\ vp[v].platform_user_data # NullPtr
                  /\ vp'[v].platform_user_data # NullPtr)
                 => /\ \A w \in WinIds, s \in Sizes :
                         (Holds(w) /\ HandleEvent(w, Resized(s)))
                         => /\ get_window_size(v)' = s
                            /\ get_window_pos(v)' = get_window_pos(v)
                            /\ get_window_focus(v)' = get_window_focus(v)
                    /\ \A w \in WinIds, p \in Poss :
                         (Holds(w) /\ HandleEvent(w, Moved(p)))
                         => /\ get_window_pos(v)' = p
                            /\ get_window_size(v)' = get_window_size(v)
                            /\ get_window_focus(v)' = get_window_focus(v)
                    /\ \A w \in WinIds, f \in BOOLEAN :
                         (Holds(w) /\ HandleEvent(w, Focused(f)))
                         => /\ get_window_focus(v)' = f
                            /\ get_window_pos(v)' = get_window_pos(v)
                            /\ get_window_size(v)' = get_window_size(v)
                    /\ ~Hit
                         => /\ get_window_pos(v)' = get_window_pos(v)
                            /\ get_window_size(v)' = get_window_size(v)
                            /\ get_window_focus(v)' = get_window_focus(v)]_vars

C27_WrittenAfterSeed ==
    /\ Idle
    /\ vp[1].platform_user_data # NullPtr
    /\ get_window_size(1) # vp[1].size
    /\ get_window_pos(1) # vp[1].pos
    /\ get_window_focus(1)
    /\ event_queue = <<>>

\* C31: between calls, last_cursor is the cursor icon the main window shows
\* and the icon the window of every entry of the map shows, a window built
\* after the cursor last changed included.
C31_WindowsShowLastCursor ==
    (status = "running" /\ ~in_update)
    => /\ main_cursor = last_cursor
       /\ \A k \in DOMAIN extra_windows :
            window_cursor[extra_windows[k].window] = last_cursor

====
